---- MODULE Spec2Model ----
(***************************************************************************)
(* State-machine model of the `upgrade` command of vcpkg,                  *)
(* vcpkg::Commands::Upgrade::perform_and_exit                              *)
(* (src/src/vcpkg/commands.upgrade.cpp).                                   *)
(*                                                                         *)
(* One run of the command is one behaviour.  The command line, the        *)
(* manifest mode, the installed tree and the port recipes are the inputs; *)
(* the collaborators (planner, installer, printers) are recorded in the   *)
(* order in which the command calls them.                                 *)
(***************************************************************************)
EXTENDS Integers, Sequences, FiniteSets, TLC

\* ------------------------------------------------------------------------
\* Bounds and input universes
\* ------------------------------------------------------------------------

\* Longest list of package specs given on the command line.
MaxArgs == 2

Names == {1, 2}
Triplets == {1, 2}

\* PackageSpec: the pair (port name, triplet).  Three specs: two of one
\* port, two of one triplet.
PackageSpec == {s \in [name : Names, triplet : Triplets] : s.name = 1 \/ s.triplet = 1}

\* Version: the pair (version text, port version).
Version(text, port_version) == [text |-> text, port_version |-> port_version]

\* The installed version, and the recipes: the same version, an older port
\* version of it, and another version text.
InstalledVersions == {Version(1, 1)}
RecipeVersions == {Version(1, 1), Version(1, 0), Version(2, 1)}

OPTION_NO_DRY_RUN == "no-dry-run"
OPTION_KEEP_GOING == "keep-going"
OPTION_NO_KEEP_GOING == "no-keep-going"
OPTION_ALLOW_UNSUPPORTED_PORT == "allow-unsupported"

INSTALL_SWITCHES ==
    {OPTION_NO_DRY_RUN, OPTION_KEEP_GOING, OPTION_NO_KEEP_GOING, OPTION_ALLOW_UNSUPPORTED_PORT}

default_build_package_options == "default"
BuildOptions == {default_build_package_options, "planner"}

PlanWarnings == {<<>>, <<"w1", "w2">>}

SeqsUpTo(S, n) == UNION {[1..k -> S] : k \in 0..n}

VARIABLES
    manifest_mode,            \* paths.manifest_mode_enabled()
    switches,                 \* the switches on the command line
    command_arguments,        \* args.command_arguments, already as specs
    pc,                       \* position in perform_and_exit
    exit_code,                \* "running", "success" or "fail"
    no_dry_run,
    keep_going,
    unsupported_port_action,
    status_db,                \* installed spec -> installed Version
    provider,                 \* port name -> recipe Version
    specs,
    i,                        \* position of the classifier loop in specs
    not_installed,
    no_control_file,
    to_upgrade,
    up_to_date,
    action_plan,
    summary,                  \* what Install::perform returned
    trace,                    \* collaborator calls and output, in order
    planner_calls,            \* create_upgrade_plan: the specs given, the plan returned
    presented,                \* the plans given to print_plan
    performed,                \* the plans given to Install::perform
    db_loaded                 \* status_db as database_load_check returned it

vars == <<manifest_mode, switches, command_arguments, pc, exit_code, no_dry_run,
          keep_going, unsupported_port_action, status_db, provider, specs, i,
          not_installed, no_control_file, to_upgrade, up_to_date, action_plan,
          summary, trace, planner_calls, presented, performed, db_loaded>>

inputs == <<manifest_mode, switches, command_arguments>>
flags == <<no_dry_run, keep_going, unsupported_port_action>>
env == <<status_db, provider, db_loaded>>
buckets == <<not_installed, no_control_file, to_upgrade, up_to_date>>
calls == <<planner_calls, presented, performed>>

\* ------------------------------------------------------------------------
\* Pure helpers
\* ------------------------------------------------------------------------

\* PackageSpec order: by name, then by triplet.
SpecLess(a, b) ==
    \/ a.name < b.name
    \/ a.name = b.name /\ a.triplet < b.triplet

RECURSIVE Insert(_, _)
Insert(x, s) ==
    IF s = <<>> THEN <<x>>
    ELSE IF SpecLess(x, Head(s)) THEN <<x>> \o s
    ELSE <<Head(s)>> \o Insert(x, Tail(s))

\* Util::sort on a vector of PackageSpec.
RECURSIVE Sort(_)
Sort(s) == IF s = <<>> THEN <<>> ELSE Insert(Head(s), Sort(Tail(s)))

RECURSIVE SetToSeq(_)
SetToSeq(S) ==
    IF S = {} THEN <<>>
    ELSE LET m == CHOOSE x \in S : \A y \in S : x = y \/ SpecLess(x, y)
         IN <<m>> \o SetToSeq(S \ {m})

EmptyPlan == [remove_actions |-> <<>>, install_actions |-> <<>>, warnings |-> <<>>]

\* ActionPlan::empty()
PlanEmpty(plan) == plan.remove_actions = <<>> /\ plan.install_actions = <<>>

\* determine_keep_going with the default of the install command.
determine_keep_going_default_no(keep_going_set, no_keep_going_set) ==
    IF keep_going_set /\ no_keep_going_set THEN "EXIT"
    ELSE IF keep_going_set THEN "YES"
    ELSE "NO"

\* determine_keep_going without the check for both switches.
determine_keep_going_unchecked(keep_going_set, no_keep_going_set) ==
    IF keep_going_set THEN "YES"
    ELSE IF no_keep_going_set THEN "NO"
    ELSE "YES"

\* KeepGoing, or "EXIT" when the check_exit on both switches ends the process.
determine_keep_going(keep_going_set, no_keep_going_set) ==
    IF keep_going_set /\ no_keep_going_set THEN "EXIT"
    ELSE IF keep_going_set THEN "YES"
    ELSE IF no_keep_going_set THEN "NO"
    ELSE "YES"

\* Update::find_outdated_packages: the installed specs whose recipe is
\* present and differs from the installed version.
find_outdated_packages(prov, db) ==
    SetToSeq({s \in DOMAIN db : s.name \in DOMAIN prov /\ prov[s.name] # db[s]})

\* Dependencies::create_upgrade_plan: what the planner may answer for a list
\* of specs.  "abort" is the planner ending the process on an unsupported
\* port.
PlannerOutcomes(requested, upa) ==
    LET n == Len(requested)
        plans == {[remove_actions |-> requested,
                   install_actions |->
                       [k \in 1..n |-> [spec |-> requested[k], build_options |-> opts[k]]],
                   warnings |-> w] :
                  opts \in [1..n -> BuildOptions],
                  w \in IF upa = "Warn" THEN PlanWarnings ELSE {<<>>}}
        empty_plans == {[EmptyPlan EXCEPT !.warnings = w] :
                        w \in IF upa = "Warn" THEN PlanWarnings ELSE {<<>>}}
    IN [kind : {"plan"}, plan : plans \cup empty_plans]
       \cup (IF upa = "Error" THEN {[kind |-> "abort", plan |-> EmptyPlan]} ELSE {})

\* ------------------------------------------------------------------------
\* Initial state: a command line, before perform_and_exit runs
\* ------------------------------------------------------------------------

Init ==
    /\ manifest_mode \in BOOLEAN
    /\ switches \in SUBSET INSTALL_SWITCHES
    /\ command_arguments \in SeqsUpTo(PackageSpec, MaxArgs)
    /\ pc = "manifest"
    /\ exit_code = "running"
    /\ no_dry_run = FALSE
    /\ keep_going = "UNSET"
    /\ unsupported_port_action = "UNSET"
    /\ status_db = <<>>
    /\ provider = <<>>
    /\ db_loaded = <<>>
    /\ specs = <<>>
    /\ i = 1
    /\ not_installed = <<>>
    /\ no_control_file = <<>>
    /\ to_upgrade = <<>>
    /\ up_to_date = <<>>
    /\ action_plan = EmptyPlan
    /\ summary = <<>>
    /\ trace = <<>>
    /\ planner_calls = <<>>
    /\ presented = <<>>
    /\ performed = <<>>

\* Checks::exit_fail, a failed Checks::check_exit, Checks::exit_maybe_upgrade
exit_fail ==
    /\ pc' = "done"
    /\ exit_code' = "fail"

\* Checks::exit_success
exit_success ==
    /\ pc' = "done"
    /\ exit_code' = "success"

\* ------------------------------------------------------------------------
\* perform_and_exit, step by step
\* ------------------------------------------------------------------------

\* ManifestCheck reporting manifest mode without ending the process.
ManifestCheckNoExit ==
    /\ pc = "manifest"
    /\ pc' = "parse"
    /\ trace' = IF manifest_mode THEN Append(trace, "error:manifest") ELSE trace
    /\ UNCHANGED <<inputs, flags, env, specs, i, buckets, exit_code, action_plan, summary, calls>>

\* if (paths.manifest_mode_enabled()) Checks::exit_maybe_upgrade(...)
ManifestCheck ==
    /\ pc = "manifest"
    /\ IF manifest_mode
       THEN /\ exit_fail
            /\ trace' = Append(trace, "error:manifest")
       ELSE /\ pc' = "parse"
            /\ UNCHANGED <<exit_code, trace>>
    /\ UNCHANGED <<inputs, flags, env, specs, i, buckets, action_plan, summary, calls>>

\* parse_arguments, the switches, determine_keep_going
ParseArguments ==
    /\ pc = "parse"
    /\ no_dry_run' = (OPTION_NO_DRY_RUN \in switches)
    /\ LET kg == determine_keep_going(OPTION_KEEP_GOING \in switches,
                                      OPTION_NO_KEEP_GOING \in switches)
       IN IF kg = "EXIT"
          THEN /\ exit_fail
               /\ trace' = trace \o <<"parse_arguments", "error:keep-going">>
               /\ UNCHANGED <<keep_going, unsupported_port_action>>
          ELSE /\ keep_going' = kg
               /\ unsupported_port_action' =
                      IF OPTION_ALLOW_UNSUPPORTED_PORT \in switches THEN "Warn" ELSE "Error"
               /\ pc' = "setup"
               /\ trace' = Append(trace, "parse_arguments")
               /\ UNCHANGED exit_code
    /\ UNCHANGED <<inputs, env, specs, i, buckets, action_plan, summary, calls>>

\* BinaryCache, database_load_check, PathsPortFileProvider,
\* make_triplet_cmake_var_provider, input sanitization
Setup ==
    /\ pc = "setup"
    /\ \E D \in SUBSET PackageSpec : status_db' \in [D -> InstalledVersions]
    /\ \E N \in SUBSET Names : provider' \in [N -> RecipeVersions]
    /\ db_loaded' = status_db'
    /\ specs' = command_arguments
    /\ trace' = trace \o <<"BinaryCache", "database_load_check", "PathsPortFileProvider",
                           "make_triplet_cmake_var_provider">>
    /\ pc' = IF specs' = <<>> THEN "scan" ELSE "classify"
    /\ UNCHANGED <<inputs, flags, exit_code, i, buckets, action_plan, summary, calls>>

\* specs.empty(): find_outdated_packages, then create_upgrade_plan
ScanOutdated ==
    /\ pc = "scan"
    /\ LET outdated_packages == find_outdated_packages(provider, status_db)
       IN IF outdated_packages = <<>>
          THEN /\ exit_success
               /\ trace' = trace \o <<"find_outdated_packages", "print:all-up-to-date">>
               /\ UNCHANGED <<action_plan, planner_calls>>
          ELSE \E r \in PlannerOutcomes(outdated_packages, unsupported_port_action) :
               /\ planner_calls' = Append(planner_calls, [specs |-> outdated_packages, result |-> r.plan])
               /\ trace' = trace \o <<"find_outdated_packages", "create_upgrade_plan">>
               /\ action_plan' = r.plan
               /\ IF r.kind = "abort"
                  THEN exit_fail
                  ELSE pc' = "check_plan" /\ UNCHANGED exit_code
    /\ UNCHANGED <<inputs, flags, env, specs, i, buckets, summary, presented, performed>>

\* ClassifyOne going to the next spec as soon as the spec is not installed.
ClassifyOneEarlyContinue(b, spec, db, prov) ==
    IF spec \notin DOMAIN db THEN [b EXCEPT !.not_installed = Append(@, spec)]
    ELSE IF spec.name \notin DOMAIN prov THEN [b EXCEPT !.no_control_file = Append(@, spec)]
    ELSE IF prov[spec.name] = db[spec]
         THEN [b EXCEPT !.up_to_date = Append(@, spec)]
         ELSE [b EXCEPT !.to_upgrade = Append(@, spec)]

\* ClassifyOne without the else: an up-to-date spec is queued for upgrade too.
ClassifyOneNoElse(b, spec, db, prov) ==
    LET installed == spec \in DOMAIN db
        has_control_file == spec.name \in DOMAIN prov
        looked_up ==
            [b EXCEPT !.not_installed =
                          IF installed THEN @ ELSE Append(@, spec),
                      !.no_control_file =
                          IF has_control_file THEN @ ELSE Append(@, spec)]
    IN IF ~installed \/ ~has_control_file THEN looked_up
       ELSE IF prov[spec.name] = db[spec]
            THEN [looked_up EXCEPT !.up_to_date = Append(@, spec),
                                   !.to_upgrade = Append(@, spec)]
            ELSE [looked_up EXCEPT !.to_upgrade = Append(@, spec)]

\* ClassifyOne upgrading only when the recipe is newer than what is installed.
ClassifyOneOnlyNewer(b, spec, db, prov) ==
    LET installed == spec \in DOMAIN db
        has_control_file == spec.name \in DOMAIN prov
        looked_up ==
            [b EXCEPT !.not_installed =
                          IF installed THEN @ ELSE Append(@, spec),
                      !.no_control_file =
                          IF has_control_file THEN @ ELSE Append(@, spec)]
    IN IF ~installed \/ ~has_control_file THEN looked_up
       ELSE IF \/ prov[spec.name].text > db[spec].text
               \/ /\ prov[spec.name].text = db[spec].text
                  /\ prov[spec.name].port_version > db[spec].port_version
            THEN [looked_up EXCEPT !.to_upgrade = Append(@, spec)]
            ELSE [looked_up EXCEPT !.up_to_date = Append(@, spec)]

\* The body of the loop over specs: the buckets b after spec is looked up in
\* the status DB and in the port provider.
ClassifyOne(b, spec, db, prov) ==
    LET installed == spec \in DOMAIN db
        has_control_file == spec.name \in DOMAIN prov
        skip_version_check == ~installed \/ ~has_control_file
        looked_up ==
            [b EXCEPT !.not_installed =
                          IF installed THEN @ ELSE Append(@, spec),
                      !.no_control_file =
                          IF has_control_file THEN @ ELSE Append(@, spec)]
    IN IF skip_version_check THEN looked_up
       ELSE IF prov[spec.name] = db[spec]
            THEN [looked_up EXCEPT !.up_to_date = Append(@, spec)]
            ELSE [looked_up EXCEPT !.to_upgrade = Append(@, spec)]

\* One turn of the loop over specs.
ClassifySpec ==
    /\ pc = "classify"
    /\ LET b == ClassifyOne([not_installed |-> not_installed,
                             no_control_file |-> no_control_file,
                             up_to_date |-> up_to_date,
                             to_upgrade |-> to_upgrade],
                            specs[i], status_db, provider)
       IN /\ not_installed' = b.not_installed
          /\ no_control_file' = b.no_control_file
          /\ up_to_date' = b.up_to_date
          /\ to_upgrade' = b.to_upgrade
    /\ trace' = trace \o <<"find_installed", "get_control_file">>
    /\ i' = i + 1
    /\ pc' = IF i = Len(specs) THEN "sort" ELSE "classify"
    /\ UNCHANGED <<inputs, flags, env, specs, exit_code, action_plan, summary, calls>>

\* SortBuckets leaving the buckets in the order of the arguments.
SortBucketsSkipped ==
    /\ pc = "sort"
    /\ pc' = "print_buckets"
    /\ UNCHANGED <<inputs, flags, env, specs, i, buckets, exit_code, action_plan, summary,
                   trace, calls>>

\* Util::sort on each bucket
SortBuckets ==
    /\ pc = "sort"
    /\ not_installed' = Sort(not_installed)
    /\ no_control_file' = Sort(no_control_file)
    /\ up_to_date' = Sort(up_to_date)
    /\ to_upgrade' = Sort(to_upgrade)
    /\ pc' = "print_buckets"
    /\ UNCHANGED <<inputs, flags, env, specs, i, exit_code, action_plan, summary, trace, calls>>

\* PrintBuckets without the list of the specs that have no recipe.
PrintBucketsWithoutNoControlFile ==
    /\ pc = "print_buckets"
    /\ trace' = trace
                \o (IF up_to_date # <<>> THEN <<"print:up_to_date">> ELSE <<>>)
                \o (IF not_installed # <<>> THEN <<"print:not_installed">> ELSE <<>>)
    /\ pc' = "check_buckets"
    /\ UNCHANGED <<inputs, flags, env, specs, i, buckets, exit_code, action_plan, summary, calls>>

\* The three lists the command prints, each only when it is not empty.
PrintBuckets ==
    /\ pc = "print_buckets"
    /\ trace' = trace
                \o (IF up_to_date # <<>> THEN <<"print:up_to_date">> ELSE <<>>)
                \o (IF not_installed # <<>> THEN <<"print:not_installed">> ELSE <<>>)
                \o (IF no_control_file # <<>> THEN <<"print:no_control_file">> ELSE <<>>)
    /\ pc' = "check_buckets"
    /\ UNCHANGED <<inputs, flags, env, specs, i, buckets, exit_code, action_plan, summary, calls>>

\* CheckBuckets looking at not_installed only.
CheckBucketsNotInstalledOnly ==
    /\ pc = "check_buckets"
    /\ IF not_installed = <<>>
       THEN pc' = "plan" /\ UNCHANGED exit_code
       ELSE exit_fail
    /\ UNCHANGED <<inputs, flags, env, specs, i, buckets, action_plan, summary, trace, calls>>

\* Checks::check_exit(not_installed.empty() && no_control_file.empty())
CheckBuckets ==
    /\ pc = "check_buckets"
    /\ IF not_installed = <<>> /\ no_control_file = <<>>
       THEN pc' = "plan" /\ UNCHANGED exit_code
       ELSE exit_fail
    /\ UNCHANGED <<inputs, flags, env, specs, i, buckets, action_plan, summary, trace, calls>>

\* PlanToUpgrade giving the planner every supplied spec.
PlanToUpgradeAllSpecs ==
    /\ pc = "plan"
    /\ IF to_upgrade = <<>>
       THEN /\ exit_success
            /\ UNCHANGED <<action_plan, planner_calls, trace>>
       ELSE \E r \in PlannerOutcomes(specs, unsupported_port_action) :
            /\ planner_calls' = Append(planner_calls, [specs |-> specs, result |-> r.plan])
            /\ trace' = Append(trace, "create_upgrade_plan")
            /\ action_plan' = r.plan
            /\ IF r.kind = "abort"
               THEN exit_fail
               ELSE pc' = "check_plan" /\ UNCHANGED exit_code
    /\ UNCHANGED <<inputs, flags, env, specs, i, buckets, summary, presented, performed>>

\* PlanToUpgrade asking for a plan even when to_upgrade is empty.
PlanToUpgradeNoEmptyExit ==
    /\ pc = "plan"
    /\ \E r \in PlannerOutcomes(to_upgrade, unsupported_port_action) :
       /\ planner_calls' = Append(planner_calls, [specs |-> to_upgrade, result |-> r.plan])
       /\ trace' = Append(trace, "create_upgrade_plan")
       /\ action_plan' = r.plan
       /\ IF r.kind = "abort"
          THEN exit_fail
          ELSE pc' = "check_plan" /\ UNCHANGED exit_code
    /\ UNCHANGED <<inputs, flags, env, specs, i, buckets, summary, presented, performed>>

\* if (to_upgrade.empty()) exit_success; create_upgrade_plan(to_upgrade)
PlanToUpgrade ==
    /\ pc = "plan"
    /\ IF to_upgrade = <<>>
       THEN /\ exit_success
            /\ UNCHANGED <<action_plan, planner_calls, trace>>
       ELSE \E r \in PlannerOutcomes(to_upgrade, unsupported_port_action) :
            /\ planner_calls' = Append(planner_calls, [specs |-> to_upgrade, result |-> r.plan])
            /\ trace' = Append(trace, "create_upgrade_plan")
            /\ action_plan' = r.plan
            /\ IF r.kind = "abort"
               THEN exit_fail
               ELSE pc' = "check_plan" /\ UNCHANGED exit_code
    /\ UNCHANGED <<inputs, flags, env, specs, i, buckets, summary, presented, performed>>

\* CheckPlan letting an empty plan through.
CheckPlanSkipped ==
    /\ pc = "check_plan"
    /\ pc' = "warnings"
    /\ UNCHANGED <<inputs, flags, env, specs, i, buckets, exit_code, action_plan, summary,
                   trace, calls>>

\* Checks::check_exit(!action_plan.empty())
CheckPlan ==
    /\ pc = "check_plan"
    /\ IF PlanEmpty(action_plan)
       THEN exit_fail
       ELSE pc' = "warnings" /\ UNCHANGED exit_code
    /\ UNCHANGED <<inputs, flags, env, specs, i, buckets, action_plan, summary, trace, calls>>

\* PrintWarnings going through the warnings from the last to the first.
PrintWarningsReversed ==
    /\ pc = "warnings"
    /\ trace' = trace \o [k \in 1..Len(action_plan.warnings) |->
                              "warning:" \o action_plan.warnings[Len(action_plan.warnings) + 1 - k]]
    /\ pc' = "build_options"
    /\ UNCHANGED <<inputs, flags, env, specs, i, buckets, exit_code, action_plan, summary, calls>>

\* for (warning : action_plan.warnings) print2(Color::warning, warning)
PrintWarnings ==
    /\ pc = "warnings"
    /\ trace' = trace \o [k \in 1..Len(action_plan.warnings) |->
                              "warning:" \o action_plan.warnings[k]]
    /\ pc' = "build_options"
    /\ UNCHANGED <<inputs, flags, env, specs, i, buckets, exit_code, action_plan, summary, calls>>

\* SetBuildOptions keeping the options the planner returned.
SetBuildOptionsSkipped ==
    /\ pc = "build_options"
    /\ pc' = "print_plan"
    /\ UNCHANGED <<inputs, flags, env, specs, i, buckets, exit_code, action_plan, summary,
                   trace, calls>>

\* for (action : action_plan.install_actions) action.build_options = default
SetBuildOptions ==
    /\ pc = "build_options"
    /\ action_plan' =
           [action_plan EXCEPT !.install_actions =
                [k \in 1..Len(action_plan.install_actions) |->
                     [action_plan.install_actions[k]
                          EXCEPT !.build_options = default_build_package_options]]]
    /\ pc' = "print_plan"
    /\ UNCHANGED <<inputs, flags, env, specs, i, buckets, exit_code, summary, trace, calls>>

\* Dependencies::print_plan(action_plan, true, ...)
PrintPlan ==
    /\ pc = "print_plan"
    /\ presented' = Append(presented, action_plan)
    /\ trace' = Append(trace, "print_plan")
    /\ pc' = "dry_run"
    /\ UNCHANGED <<inputs, flags, env, specs, i, buckets, exit_code, action_plan, summary,
                   planner_calls, performed>>

\* DryRunGate printing the advisory and going on.
DryRunGateNoExit ==
    /\ pc = "dry_run"
    /\ trace' = IF ~no_dry_run THEN Append(trace, "print:advisory") ELSE trace
    /\ pc' = "load_tag_vars"
    /\ UNCHANGED <<inputs, flags, env, specs, i, buckets, exit_code, action_plan, summary, calls>>

\* if (!no_dry_run) { advisory; Checks::exit_fail }
DryRunGate ==
    /\ pc = "dry_run"
    /\ IF ~no_dry_run
       THEN /\ trace' = Append(trace, "print:advisory")
            /\ exit_fail
       ELSE /\ pc' = "load_tag_vars"
            /\ UNCHANGED <<trace, exit_code>>
    /\ UNCHANGED <<inputs, flags, env, specs, i, buckets, action_plan, summary, calls>>

\* var_provider.load_tag_vars(action_plan, provider, host_triplet)
LoadTagVars ==
    /\ pc = "load_tag_vars"
    /\ trace' = Append(trace, "load_tag_vars")
    /\ pc' = "install"
    /\ UNCHANGED <<inputs, flags, env, specs, i, buckets, exit_code, action_plan, summary, calls>>

\* What Install::perform reports when the first failing action is the
\* first_failed-th one (none fails when first_failed is past the end).
InstallResults(n, first_failed) ==
    [k \in 1..n |-> IF k < first_failed THEN "SUCCEEDED"
                    ELSE IF k = first_failed THEN "BUILD_FAILED"
                    ELSE "CASCADED"]

\* The status DB once the actions before first_failed are installed.
InstalledAfter(db, prov, actions, first_failed) ==
    [s \in DOMAIN db |->
        IF \E k \in 1..Len(actions) :
               k < first_failed /\ actions[k].spec = s /\ s.name \in DOMAIN prov
        THEN prov[s.name]
        ELSE db[s]]

\* Install::perform(args, action_plan, keep_going, paths, status_db, ...)
InstallPerform ==
    /\ pc = "install"
    /\ performed' = Append(performed, action_plan)
    /\ trace' = Append(trace, "Install::perform")
    /\ \E first_failed \in 1..(Len(action_plan.install_actions) + 1) :
       LET n == Len(action_plan.install_actions)
       IN /\ status_db' = InstalledAfter(status_db, provider,
                                         action_plan.install_actions, first_failed)
          /\ IF first_failed <= n /\ keep_going = "NO"
             THEN /\ exit_fail
                  /\ UNCHANGED summary
             ELSE /\ summary' = InstallResults(n, first_failed)
                  /\ pc' = "elapsed"
                  /\ UNCHANGED exit_code
    /\ UNCHANGED <<inputs, flags, provider, db_loaded, specs, i, buckets, action_plan,
                   planner_calls, presented>>

\* print2("\nTotal elapsed time: ", ...)
PrintElapsed ==
    /\ pc = "elapsed"
    /\ trace' = Append(trace, "print:elapsed")
    /\ pc' = "summary"
    /\ UNCHANGED <<inputs, flags, env, specs, i, buckets, exit_code, action_plan, summary, calls>>

\* PrintSummary printing the summary whatever keep_going is.
PrintSummaryAlways ==
    /\ pc = "summary"
    /\ trace' = Append(trace, "print:summary")
    /\ pc' = "exit"
    /\ UNCHANGED <<inputs, flags, env, specs, i, buckets, exit_code, action_plan, summary, calls>>

\* PrintSummary repeating the plan's warnings after the summary.
PrintSummaryThenWarnings ==
    /\ pc = "summary"
    /\ trace' = (IF keep_going = "YES" THEN Append(trace, "print:summary") ELSE trace)
                \o [k \in 1..Len(action_plan.warnings) |->
                        "warning:" \o action_plan.warnings[k]]
    /\ pc' = "exit"
    /\ UNCHANGED <<inputs, flags, env, specs, i, buckets, exit_code, action_plan, summary, calls>>

\* if (keep_going == KeepGoing::YES) summary.print()
PrintSummary ==
    /\ pc = "summary"
    /\ trace' = IF keep_going = "YES" THEN Append(trace, "print:summary") ELSE trace
    /\ pc' = "exit"
    /\ UNCHANGED <<inputs, flags, env, specs, i, buckets, exit_code, action_plan, summary, calls>>

\* Finish returning to the caller instead of exiting.
FinishReturns ==
    /\ pc = "exit"
    /\ pc' = "returned"
    /\ UNCHANGED <<inputs, flags, env, specs, i, buckets, exit_code, action_plan, summary,
                   trace, calls>>

\* Finish taking the exit code from the summary.
FinishFailOnFailures ==
    /\ pc = "exit"
    /\ IF \E k \in 1..Len(summary) : summary[k] # "SUCCEEDED"
       THEN exit_fail
       ELSE exit_success
    /\ UNCHANGED <<inputs, flags, env, specs, i, buckets, action_plan, summary, trace, calls>>

\* Checks::exit_success at the end of perform_and_exit
Finish ==
    /\ pc = "exit"
    /\ exit_success
    /\ UNCHANGED <<inputs, flags, env, specs, i, buckets, action_plan, summary, trace, calls>>

Next ==
    \/ ManifestCheck
    \/ ParseArguments
    \/ Setup
    \/ ScanOutdated
    \/ ClassifySpec
    \/ SortBuckets
    \/ PrintBuckets
    \/ CheckBuckets
    \/ PlanToUpgrade
    \/ CheckPlan
    \/ PrintWarnings
    \/ SetBuildOptions
    \/ PrintPlan
    \/ DryRunGate
    \/ LoadTagVars
    \/ InstallPerform
    \/ PrintElapsed
    \/ PrintSummary
    \/ Finish

Spec == Init /\ [][Next]_vars

\* A run goes on while a step of perform_and_exit is left: each step is
\* straight-line code and each collaborator call returns or exits.
FairSpec == Spec /\ WF_vars(Next)

TypeOK ==
    /\ exit_code \in {"running", "success", "fail"}
    /\ (pc = "done") = (exit_code # "running")

\* ------------------------------------------------------------------------
\* Vocabulary of the properties
\* ------------------------------------------------------------------------

Range(s) == {s[k] : k \in 1..Len(s)}

InTrace(e) == e \in Range(trace)

\* The run has gone through the whole classifier loop.
Classified == specs # <<>> /\ i > Len(specs)

\* ... and through the four sorts.
Sorted == Classified /\ pc # "sort"

Installed(spec) == spec \in DOMAIN db_loaded
HasRecipe(spec) == spec.name \in DOMAIN provider

DryRun == OPTION_NO_DRY_RUN \notin switches

\* The planner was called and returned a plan that is not empty.
PlanReached == planner_calls # <<>> /\ ~PlanEmpty(planner_calls[1].result)

ClassificationFailed == Classified /\ (not_installed # <<>> \/ no_control_file # <<>>)

BucketOutput == {"print:up_to_date", "print:not_installed", "print:no_control_file",
                 "print:to_upgrade"}

IsBucketOutput(e) == e \in BucketOutput

\* ------------------------------------------------------------------------
\* C1 - dry-run safety
\* ------------------------------------------------------------------------

\* C1: in a run without --no-dry-run, load_tag_vars and Install::perform are
\* never called and the status DB stays as it was loaded; once such a run
\* has a non-empty plan and has ended, it has printed the plan and then the
\* advisory, and its exit code is a failure.
DryRunSafety ==
    DryRun =>
        /\ ~InTrace("load_tag_vars")
        /\ ~InTrace("Install::perform")
        /\ performed = <<>>
        /\ status_db = db_loaded
        /\ pc \notin {"load_tag_vars", "install", "elapsed", "summary", "exit"}
        /\ (pc = "done" /\ PlanReached) =>
               /\ exit_code = "fail"
               /\ presented = <<action_plan>>
               /\ Len(trace) >= 2
               /\ trace[Len(trace) - 1] = "print_plan"
               /\ trace[Len(trace)] = "print:advisory"

DryRunSafetyWitness ==
    /\ DryRun
    /\ pc = "done"
    /\ PlanReached
    /\ exit_code = "fail"
    /\ InTrace("print:advisory")
    /\ status_db # <<>>

\* ------------------------------------------------------------------------
\* C2 - the buckets a supplied spec lands in
\* ------------------------------------------------------------------------

BucketsHolding(spec) ==
    {b \in {"not_installed", "no_control_file", "up_to_date", "to_upgrade"} :
        spec \in Range(CASE b = "not_installed" -> not_installed
                         [] b = "no_control_file" -> no_control_file
                         [] b = "up_to_date" -> up_to_date
                         [] b = "to_upgrade" -> to_upgrade)}

\* C2 as stated: after classification every supplied spec is in exactly one
\* of the four buckets.
ExactlyOneBucket ==
    Classified => \A spec \in Range(specs) : Cardinality(BucketsHolding(spec)) = 1

\* C2, amended: after classification every supplied spec is in at least one
\* bucket; it is in exactly one bucket unless it is neither installed nor
\* has a recipe, and then it is in exactly not_installed and no_control_file.
OneBucketUnlessBothMissing ==
    Classified =>
        \A spec \in Range(specs) :
            /\ BucketsHolding(spec) # {}
            /\ IF ~Installed(spec) /\ ~HasRecipe(spec)
               THEN BucketsHolding(spec) = {"not_installed", "no_control_file"}
               ELSE Cardinality(BucketsHolding(spec)) = 1

OneBucketWitness ==
    /\ Classified
    /\ \E spec \in Range(specs) : ~Installed(spec) /\ ~HasRecipe(spec)
    /\ \E spec \in Range(specs) : Installed(spec) /\ HasRecipe(spec)

\* ------------------------------------------------------------------------
\* C3 - a failed classification blocks planning
\* ------------------------------------------------------------------------

\* C3: once the classifier has left a spec in not_installed or in
\* no_control_file, the run calls neither create_upgrade_plan nor print_plan
\* nor Install::perform, and it ends with a failure exit code, whatever
\* to_upgrade holds and whether or not --no-dry-run was given.
ClassificationFailureBlocksPlanning ==
    ClassificationFailed =>
        /\ planner_calls = <<>>
        /\ presented = <<>>
        /\ performed = <<>>
        /\ ~InTrace("create_upgrade_plan")
        /\ ~InTrace("print_plan")
        /\ ~InTrace("Install::perform")
        /\ pc \in {"sort", "print_buckets", "check_buckets", "done"}
        /\ pc = "done" => exit_code = "fail"

ClassificationFailureWitness ==
    /\ ClassificationFailed
    /\ pc = "done"
    /\ exit_code = "fail"
    /\ not_installed = <<>>
    /\ to_upgrade # <<>>
    /\ ~DryRun

\* ------------------------------------------------------------------------
\* C4 - what is printed before the classification failure
\* ------------------------------------------------------------------------

\* C4 as stated: a run that fails on its classification has printed all four
\* bucket summaries.
AllFourBucketsPrinted ==
    (ClassificationFailed /\ pc = "done") =>
        /\ exit_code = "fail"
        /\ \A e \in BucketOutput : InTrace(e)

\* The summaries the command prints for the buckets as they are, in order.
ExpectedBucketOutput ==
    (IF up_to_date # <<>> THEN <<"print:up_to_date">> ELSE <<>>)
    \o (IF not_installed # <<>> THEN <<"print:not_installed">> ELSE <<>>)
    \o (IF no_control_file # <<>> THEN <<"print:no_control_file">> ELSE <<>>)

\* C4, amended: a run that fails on its classification exits with a failure
\* code only after it has printed the summary of every non-empty bucket
\* among up_to_date, not_installed and no_control_file, in that order; an
\* empty bucket has no summary, and to_upgrade is never printed.
NonEmptyBucketsPrintedBeforeFailure ==
    (ClassificationFailed /\ pc \in {"check_buckets", "done"}) =>
        /\ SelectSeq(trace, IsBucketOutput) = ExpectedBucketOutput
        /\ pc = "done" => exit_code = "fail"

NonEmptyBucketsPrintedWitness ==
    /\ ClassificationFailed
    /\ pc = "done"
    /\ exit_code = "fail"
    /\ up_to_date # <<>>
    /\ no_control_file # <<>>
    /\ not_installed = <<>>

\* ------------------------------------------------------------------------
\* C5 - determine_keep_going
\* ------------------------------------------------------------------------

KeepGoingSet == OPTION_KEEP_GOING \in switches
NoKeepGoingSet == OPTION_NO_KEEP_GOING \in switches

\* C5: once the switches are resolved, both switches set means the run has
\* ended with a failure and no KeepGoing value; --keep-going alone gives
\* YES, --no-keep-going alone gives NO, neither gives YES; so the value is
\* NO exactly when --no-keep-going is set and --keep-going is not.
KeepGoingResolution ==
    InTrace("parse_arguments") =>
        /\ (KeepGoingSet /\ NoKeepGoingSet) =>
               (pc = "done" /\ exit_code = "fail" /\ keep_going = "UNSET")
        /\ (KeepGoingSet /\ ~NoKeepGoingSet) => keep_going = "YES"
        /\ (~KeepGoingSet /\ NoKeepGoingSet) => keep_going = "NO"
        /\ (~KeepGoingSet /\ ~NoKeepGoingSet) => keep_going = "YES"
        /\ (keep_going = "NO") <=> (NoKeepGoingSet /\ ~KeepGoingSet)

KeepGoingResolutionWitness ==
    /\ InTrace("parse_arguments")
    /\ ~KeepGoingSet
    /\ ~NoKeepGoingSet
    /\ keep_going = "YES"
    /\ pc = "setup"

\* ------------------------------------------------------------------------
\* C6 - both keep-going switches
\* ------------------------------------------------------------------------

\* C6: a run given both --keep-going and --no-keep-going never loads the
\* status DB, never looks a spec up, never scans, plans, presents or
\* installs, and ends with a failure exit code, whatever --no-dry-run and
\* the supplied specs are.
KeepGoingConflictExitsEarly ==
    (KeepGoingSet /\ NoKeepGoingSet) =>
        /\ Range(trace) \subseteq {"error:manifest", "parse_arguments", "error:keep-going"}
        /\ status_db = <<>>
        /\ provider = <<>>
        /\ specs = <<>>
        /\ i = 1
        /\ planner_calls = <<>>
        /\ presented = <<>>
        /\ performed = <<>>
        /\ pc \in {"manifest", "parse", "done"}
        /\ pc = "done" => exit_code = "fail"

KeepGoingConflictWitness ==
    /\ KeepGoingSet
    /\ NoKeepGoingSet
    /\ ~DryRun
    /\ command_arguments # <<>>
    /\ pc = "done"
    /\ InTrace("error:keep-going")

\* ------------------------------------------------------------------------
\* C7 - manifest mode
\* ------------------------------------------------------------------------

\* C7: in manifest mode the run ends before it parses the arguments,
\* resolves keep-going, makes the binary cache, loads the status DB or makes
\* and asks the port provider; no classification, planning or execution
\* step happens.
ManifestRejection ==
    manifest_mode =>
        /\ Range(trace) \subseteq {"error:manifest"}
        /\ keep_going = "UNSET"
        /\ unsupported_port_action = "UNSET"
        /\ status_db = <<>>
        /\ provider = <<>>
        /\ specs = <<>>
        /\ i = 1
        /\ planner_calls = <<>>
        /\ presented = <<>>
        /\ performed = <<>>
        /\ pc \in {"manifest", "done"}
        /\ pc = "done" => exit_code = "fail"

ManifestRejectionWitness ==
    /\ manifest_mode
    /\ pc = "done"
    /\ trace = <<"error:manifest">>
    /\ command_arguments # <<>>
    /\ ~DryRun

\* ------------------------------------------------------------------------
\* C8 - build options
\* ------------------------------------------------------------------------

DefaultOptionsOnly(plan) ==
    \A k \in 1..Len(plan.install_actions) :
        plan.install_actions[k].build_options = default_build_package_options

\* C8: every plan given to print_plan and every plan given to
\* Install::perform has the default build options on each of its install
\* actions, whatever options the planner returned and whichever branch
\* asked for the plan.
BuildOptionUniformity ==
    /\ \A k \in 1..Len(presented) : DefaultOptionsOnly(presented[k])
    /\ \A k \in 1..Len(performed) : DefaultOptionsOnly(performed[k])

BuildOptionUniformityWitness ==
    /\ presented # <<>>
    /\ performed # <<>>
    /\ planner_calls # <<>>
    /\ ~DefaultOptionsOnly(planner_calls[1].result)
    /\ Len(performed[1].install_actions) >= 2

\* ------------------------------------------------------------------------
\* C9 - the buckets do not depend on the order of the arguments
\* ------------------------------------------------------------------------

NoBuckets ==
    [not_installed |-> <<>>, no_control_file |-> <<>>, up_to_date |-> <<>>, to_upgrade |-> <<>>]

\* The classifier loop over a whole list, then the four sorts.
RECURSIVE ClassifyAll(_, _, _, _)
ClassifyAll(b, list, db, prov) ==
    IF list = <<>> THEN b
    ELSE ClassifyAll(ClassifyOne(b, Head(list), db, prov), Tail(list), db, prov)

SortedBuckets(list, db, prov) ==
    LET b == ClassifyAll(NoBuckets, list, db, prov)
    IN [not_installed |-> Sort(b.not_installed),
        no_control_file |-> Sort(b.no_control_file),
        up_to_date |-> Sort(b.up_to_date),
        to_upgrade |-> Sort(b.to_upgrade)]

\* The lists that are the list s in another order.
Reorderings(s) ==
    {[k \in 1..Len(s) |-> s[f[k]]] : f \in Permutations(1..Len(s))}

NonDecreasing(s) == \A k \in 1..(Len(s) - 1) : ~SpecLess(s[k + 1], s[k])

\* C9: after the sorts each bucket is in PackageSpec order, and it is the
\* bucket the command computes for the same specs given in any other order
\* against the same status DB and recipes; so is the list given to
\* create_upgrade_plan.
SortStability ==
    Sorted =>
        /\ NonDecreasing(not_installed)
        /\ NonDecreasing(no_control_file)
        /\ NonDecreasing(up_to_date)
        /\ NonDecreasing(to_upgrade)
        /\ \A other \in Reorderings(specs) :
               LET b == SortedBuckets(other, db_loaded, provider)
               IN /\ b.not_installed = not_installed
                  /\ b.no_control_file = no_control_file
                  /\ b.up_to_date = up_to_date
                  /\ b.to_upgrade = to_upgrade
                  /\ planner_calls # <<>> => planner_calls[1].specs = b.to_upgrade

SortStabilityWitness ==
    /\ Sorted
    /\ planner_calls # <<>>
    /\ Len(to_upgrade) >= 2
    /\ SpecLess(specs[2], specs[1])

\* ------------------------------------------------------------------------
\* C10 - how many entries the buckets hold
\* ------------------------------------------------------------------------

BucketTotal == Len(not_installed) + Len(no_control_file) + Len(up_to_date) + Len(to_upgrade)

\* The supplied specs, duplicates counted, that are neither installed nor
\* have a recipe.
BothMissing == Cardinality({k \in 1..Len(specs) : ~Installed(specs[k]) /\ ~HasRecipe(specs[k])})

\* C10: after classification the four buckets together hold at least as
\* many entries as there are supplied specs, duplicates counted; the excess
\* is the number of supplied specs that are neither installed nor have a
\* recipe, so the counts are equal when there is no such spec.
BucketCounting ==
    Classified =>
        /\ BucketTotal >= Len(specs)
        /\ BucketTotal - Len(specs) = BothMissing
        /\ BothMissing = 0 => BucketTotal = Len(specs)

BucketCountingWitness ==
    /\ Classified
    /\ BothMissing >= 1
    /\ BucketTotal > Len(specs)
    /\ \E j, k \in 1..Len(specs) : j # k /\ specs[j] = specs[k]

\* ------------------------------------------------------------------------
\* C11 - up to date means the same version
\* ------------------------------------------------------------------------

SameVersion(spec) ==
    /\ provider[spec.name].text = db_loaded[spec].text
    /\ provider[spec.name].port_version = db_loaded[spec].port_version

\* C11: after classification a supplied spec that is installed and has a
\* recipe is in up_to_date exactly when the recipe and the installed version
\* have the same version text and the same port version, and it is in
\* to_upgrade in every other case, an older recipe and a change of the port
\* version alone included.
VersionInequalityDecides ==
    Classified =>
        \A spec \in Range(specs) :
            (Installed(spec) /\ HasRecipe(spec)) =>
                /\ (spec \in Range(up_to_date)) <=> SameVersion(spec)
                /\ (spec \in Range(to_upgrade)) <=> ~SameVersion(spec)

VersionInequalityWitness ==
    /\ Classified
    /\ \E spec \in Range(to_upgrade) :
           /\ provider[spec.name].text = db_loaded[spec].text
           /\ provider[spec.name].port_version < db_loaded[spec].port_version
    /\ \E spec \in Range(up_to_date) : SameVersion(spec)

\* ------------------------------------------------------------------------
\* C12 - nothing to upgrade
\* ------------------------------------------------------------------------

\* The status DB is loaded and the port provider is made.
EnvironmentLoaded == InTrace("make_triplet_cmake_var_provider")

NoPlanning ==
    /\ planner_calls = <<>>
    /\ presented = <<>>
    /\ performed = <<>>
    /\ ~InTrace("create_upgrade_plan")
    /\ ~InTrace("print_plan")
    /\ ~InTrace("Install::perform")

\* No specs were supplied and nothing installed is outdated.
NothingOutdated ==
    /\ EnvironmentLoaded
    /\ command_arguments = <<>>
    /\ find_outdated_packages(provider, db_loaded) = <<>>

\* Specs were supplied and all of them are installed, have a recipe and are
\* up to date.
AllUpToDate ==
    /\ Classified
    /\ not_installed = <<>>
    /\ no_control_file = <<>>
    /\ to_upgrade = <<>>

\* C12: when no specs are supplied and nothing is outdated, the run prints
\* the all-up-to-date message and ends with success; when specs are
\* supplied and every one is up to date, the run ends with success; in both
\* cases without create_upgrade_plan, print_plan or Install::perform,
\* whatever --no-dry-run is.  find_outdated_packages is called only when no
\* specs were supplied.
NothingToUpgradeIsSuccess ==
    /\ NothingOutdated =>
           /\ NoPlanning
           /\ pc \in {"scan", "done"}
           /\ pc = "done" =>
                  /\ exit_code = "success"
                  /\ trace[Len(trace)] = "print:all-up-to-date"
    /\ AllUpToDate =>
           /\ NoPlanning
           /\ pc \in {"sort", "print_buckets", "check_buckets", "plan", "done"}
           /\ pc = "done" => exit_code = "success"
    /\ InTrace("find_outdated_packages") => command_arguments = <<>>
    /\ (pc \notin {"manifest", "parse", "setup", "scan"} /\ command_arguments = <<>>
            /\ EnvironmentLoaded) => InTrace("find_outdated_packages")

NothingToUpgradeWitness ==
    /\ AllUpToDate
    /\ pc = "done"
    /\ exit_code = "success"
    /\ Len(up_to_date) >= 2
    /\ ~DryRun

\* ------------------------------------------------------------------------
\* C13 - the exit code when the installer has gone on past failures
\* ------------------------------------------------------------------------

\* Install::perform was called and has returned.
PerformReturned == performed # <<>> /\ pc \in {"elapsed", "summary", "exit", "done"} /\ summary # <<>>

\* C13: with --no-dry-run and KeepGoing YES, given or by default, a run in
\* which Install::perform returned ends with success, also when the summary
\* it returned has failed or cascaded actions.
KeepGoingExitsSuccess ==
    (PerformReturned /\ keep_going = "YES" /\ pc = "done") =>
        /\ ~DryRun
        /\ exit_code = "success"

KeepGoingExitsSuccessWitness ==
    /\ PerformReturned
    /\ keep_going = "YES"
    /\ ~KeepGoingSet
    /\ pc = "done"
    /\ exit_code = "success"
    /\ "BUILD_FAILED" \in Range(summary)
    /\ "CASCADED" \in Range(summary)

\* ------------------------------------------------------------------------
\* C14 - the order of the output of the three phases
\* ------------------------------------------------------------------------

WarningOutput == UNION {{"warning:" \o w[k] : k \in 1..Len(w)} : w \in PlanWarnings}

PlanningOutput == WarningOutput \cup {"print_plan", "print:advisory"}

ExecutionOutput == {"Install::perform", "print:elapsed", "print:summary"}

\* 1 for a bucket summary, 2 for planning output, 3 for execution output,
\* 0 for what is no output of a phase.
Phase(e) ==
    IF e \in BucketOutput THEN 1
    ELSE IF e \in PlanningOutput THEN 2
    ELSE IF e \in ExecutionOutput THEN 3
    ELSE 0

\* C14: in every run each bucket summary is emitted before any planning
\* output (plan warnings, the printed plan, the advisory), and each planning
\* output before any execution output (the installer, the elapsed time, the
\* summary).
OutputPhasesInOrder ==
    \A j, k \in 1..Len(trace) :
        (j < k /\ Phase(trace[j]) # 0 /\ Phase(trace[k]) # 0) =>
            Phase(trace[j]) <= Phase(trace[k])

OutputPhasesWitness ==
    /\ pc = "done"
    /\ InTrace("print:up_to_date")
    /\ InTrace("warning:w1")
    /\ InTrace("print_plan")
    /\ InTrace("print:elapsed")
    /\ InTrace("print:summary")

\* ------------------------------------------------------------------------
\* C15 - a spec that is neither installed nor has a recipe
\* ------------------------------------------------------------------------

IsInstalledLookup(e) == e = "find_installed"
IsRecipeLookup(e) == e = "get_control_file"

\* How many times x is in the list s.
Occurrences(s, x) == Cardinality({k \in 1..Len(s) : s[k] = x})

\* C15: the recipe is looked up for every supplied spec, also when it is
\* not installed; after classification a supplied spec that is neither
\* installed nor has a recipe is in not_installed and in no_control_file,
\* once for each time it was supplied, and in neither up_to_date nor
\* to_upgrade.
BothMissingInBothBuckets ==
    /\ (specs # <<>>) =>
           /\ Len(SelectSeq(trace, IsInstalledLookup)) = i - 1
           /\ Len(SelectSeq(trace, IsRecipeLookup)) = i - 1
    /\ Classified =>
           \A spec \in Range(specs) :
               (~Installed(spec) /\ ~HasRecipe(spec)) =>
                   /\ Occurrences(not_installed, spec) = Occurrences(specs, spec)
                   /\ Occurrences(no_control_file, spec) = Occurrences(specs, spec)
                   /\ spec \notin Range(up_to_date)
                   /\ spec \notin Range(to_upgrade)

BothMissingWitness ==
    /\ Classified
    /\ \E spec \in Range(specs) :
           /\ ~Installed(spec)
           /\ ~HasRecipe(spec)
           /\ spec \in Range(not_installed)
           /\ spec \in Range(no_control_file)
    /\ Len(SelectSeq(trace, IsRecipeLookup)) = Len(specs)
    /\ to_upgrade # <<>>

\* ------------------------------------------------------------------------
\* C16 - an empty plan
\* ------------------------------------------------------------------------

\* create_upgrade_plan was called and what it left is an empty plan.
EmptyPlanReturned == planner_calls # <<>> /\ PlanEmpty(planner_calls[1].result)

\* C16: when create_upgrade_plan returns an empty plan, in either branch,
\* the run ends with a failure exit code and emits no plan warning, does
\* not print the plan or the advisory and takes no execution step, whatever
\* --no-dry-run is.
EmptyPlanFails ==
    EmptyPlanReturned =>
        /\ Range(trace) \cap (PlanningOutput \cup ExecutionOutput \cup {"load_tag_vars"}) = {}
        /\ presented = <<>>
        /\ performed = <<>>
        /\ status_db = db_loaded
        /\ pc \in {"check_plan", "done"}
        /\ pc = "done" => exit_code = "fail"

EmptyPlanFailsWitness ==
    /\ EmptyPlanReturned
    /\ planner_calls[1].result.warnings # <<>>
    /\ command_arguments = <<>>
    /\ ~DryRun
    /\ pc = "done"
    /\ exit_code = "fail"

\* ------------------------------------------------------------------------
\* C17 - warnings, plan, advisory
\* ------------------------------------------------------------------------

IsPlanningOutput(e) == e \in PlanningOutput

\* One line for each warning of the plan, in the order of plan.warnings.
WarningLines(plan) == [k \in 1..Len(plan.warnings) |-> "warning:" \o plan.warnings[k]]

\* C17: for a plan that is not empty the run emits one line for each
\* warning, in the order of plan.warnings, then prints the plan, then the
\* advisory; the advisory is emitted exactly when --no-dry-run was not
\* given, and the failure exit comes right after it.
PlanPresenterOrder ==
    /\ pc \in {"build_options", "print_plan"} =>
           SelectSeq(trace, IsPlanningOutput) = WarningLines(action_plan)
    /\ presented # <<>> =>
           SelectSeq(trace, IsPlanningOutput) =
               WarningLines(action_plan) \o <<"print_plan">>
               \o (IF DryRun /\ pc = "done" THEN <<"print:advisory">> ELSE <<>>)
    /\ InTrace("print:advisory") =>
           /\ DryRun
           /\ presented # <<>>
           /\ trace[Len(trace)] = "print:advisory"
           /\ pc = "done"
           /\ exit_code = "fail"
    /\ (presented # <<>> /\ DryRun) => pc \in {"dry_run", "done"}

PlanPresenterWitness ==
    /\ DryRun
    /\ pc = "done"
    /\ presented # <<>>
    /\ Len(action_plan.warnings) = 2
    /\ InTrace("print:advisory")

\* ------------------------------------------------------------------------
\* C18 - the steps after the dry-run gate
\* ------------------------------------------------------------------------

IsExecutorStep(e) == e \in ExecutionOutput \cup {"load_tag_vars"}

\* The executor's steps the run has taken, in order.
ExecutorSteps == SelectSeq(trace, IsExecutorStep)

\* The run printed its plan and went through the gate.
GatePassed == presented # <<>> /\ ~DryRun /\ pc # "dry_run"

\* All the executor's steps, for the resolved keep_going.
FullExecution ==
    <<"load_tag_vars", "Install::perform", "print:elapsed">>
    \o (IF keep_going = "YES" THEN <<"print:summary">> ELSE <<>>)

\* C18 as stated: a run that has passed the gate ends with all the
\* executor's steps taken once each, in order, and with success.
GatePassedEndsInSuccess ==
    (GatePassed /\ pc = "done") =>
        /\ ExecutorSteps = FullExecution
        /\ exit_code = "success"

\* C18, amended: the executor's steps are taken only after the gate, at most
\* once each and in this order: load_tag_vars, Install::perform, the elapsed
\* time, the summary.  When Install::perform returns, all of them are taken
\* and the run ends with success, the summary printed exactly when
\* keep_going is YES and the elapsed time in both cases.  When keep_going is
\* NO the installer may end the run with a failure, and then
\* Install::perform is the last step.
ExecutorOrder ==
    /\ ExecutorSteps # <<>> => GatePassed
    /\ Len(performed) <= 1
    /\ GatePassed =>
           /\ pc \in {"load_tag_vars", "install", "elapsed", "summary", "exit", "done"}
           /\ pc = "load_tag_vars" => ExecutorSteps = <<>>
           /\ pc = "install" => ExecutorSteps = <<"load_tag_vars">>
           /\ pc = "elapsed" => ExecutorSteps = SubSeq(FullExecution, 1, 2)
           /\ pc = "summary" => ExecutorSteps = SubSeq(FullExecution, 1, 3)
           /\ pc = "exit" => ExecutorSteps = FullExecution
           /\ pc = "done" =>
                  \/ /\ exit_code = "success"
                     /\ ExecutorSteps = FullExecution
                  \/ /\ exit_code = "fail"
                     /\ keep_going = "NO"
                     /\ summary = <<>>
                     /\ ExecutorSteps = SubSeq(FullExecution, 1, 2)

ExecutorOrderWitness ==
    /\ GatePassed
    /\ pc = "done"
    /\ exit_code = "success"
    /\ keep_going = "NO"
    /\ ExecutorSteps = <<"load_tag_vars", "Install::perform", "print:elapsed">>

\* ------------------------------------------------------------------------
\* C19 - what the planner is asked
\* ------------------------------------------------------------------------

IsPlannerCall(e) == e = "create_upgrade_plan"

\* C19: create_upgrade_plan is called at most once in a run, and with a
\* list that is not empty.  With specs supplied the list is the sorted
\* to_upgrade bucket: each spec in it is installed, has a recipe whose
\* version differs from the installed one, and is in none of up_to_date,
\* not_installed and no_control_file.  With no specs supplied the list is
\* the specs of what find_outdated_packages returned.
PlannerInput ==
    /\ Len(planner_calls) <= 1
    /\ Len(SelectSeq(trace, IsPlannerCall)) = Len(planner_calls)
    /\ planner_calls # <<>> =>
           LET requested == planner_calls[1].specs
           IN /\ requested # <<>>
              /\ IF command_arguments # <<>>
                 THEN /\ requested = to_upgrade
                      /\ NonDecreasing(requested)
                      /\ Range(requested) \subseteq Range(specs)
                      /\ \A spec \in Range(requested) :
                             /\ Installed(spec)
                             /\ HasRecipe(spec)
                             /\ provider[spec.name] # db_loaded[spec]
                             /\ spec \notin Range(up_to_date)
                             /\ spec \notin Range(not_installed)
                             /\ spec \notin Range(no_control_file)
                      /\ \A spec \in Range(up_to_date) \cup Range(not_installed)
                                         \cup Range(no_control_file) :
                             spec \notin Range(requested)
                 ELSE requested = find_outdated_packages(provider, db_loaded)

PlannerInputWitness ==
    /\ planner_calls # <<>>
    /\ command_arguments # <<>>
    /\ Len(planner_calls[1].specs) >= 2
    /\ SpecLess(specs[2], specs[1])
    /\ pc = "done"

\* ------------------------------------------------------------------------
\* C20 - every run ends in one exit
\* ------------------------------------------------------------------------

\* The three ways to a success exit.
SuccessAfterScan ==
    /\ NothingOutdated
    /\ trace[Len(trace)] = "print:all-up-to-date"

SuccessAfterClassification == AllUpToDate /\ NoPlanning

SuccessAfterExecution == GatePassed /\ PerformReturned /\ ExecutorSteps = FullExecution

\* C20: every run reaches an exit, with success or with failure, takes no
\* step after it, so that it neither returns to its caller nor exits twice,
\* and a success exit is one of: nothing outdated with no specs supplied,
\* every supplied spec up to date, the executor run to its end after
\* --no-dry-run.
Termination ==
    /\ <>(pc = "done")
    /\ [](pc = "done" <=> exit_code \in {"success", "fail"})
    /\ [][pc # "done"]_vars
    /\ [](exit_code = "success" =>
              \/ SuccessAfterScan
              \/ SuccessAfterClassification
              \/ SuccessAfterExecution)

TerminationWitness ==
    /\ pc = "done"
    /\ exit_code = "success"
    /\ SuccessAfterExecution
    /\ command_arguments = <<>>

====
